---- MODULE Spec2Model ----
(***************************************************************************)
(* Model of two components of the virtualised list view:                   *)
(*   - crates/ui/src/components/indent_guides.rs: compute_indent_guides    *)
(*     (stack based segment computation) and the decoration's prepaint_fn  *)
(*     that turns segments into pixel rectangles;                          *)
(*   - crates/workspace/src/scrollbar.rs: the thumb geometry of            *)
(*     render_vertical_scrollbar / render_horizontal_scrollbar.            *)
(* Pixel values are integers.  Fractions of the scrollbar track are exact  *)
(* rationals kept as numerators over a common denominator, so the model    *)
(* does not round the way f64/f32 do.                                      *)
(***************************************************************************)
EXTENDS Integers, Sequences, FiniteSets, TLC

\* ------------------------------------------------------------------------
\* Bounds of the model
\* ------------------------------------------------------------------------
\* longest row-depth sequence handed to compute_indent_guides
MaxRows == 4
\* deepest indentation of a row
MaxDepth == 3
\* largest first visible row (visible_range.start)
MaxOffset == 2

VARIABLES
    \* indent guides (indent_guides.rs)
    indents,        \* visible_entries: the depth of every visible row
    offset,         \* visible_range.start, handed to compute_indent_guides
    row,            \* index of the next row of the for loop (0-based)
    indent_stack,   \* the open guides, bottom first
    indent_guides,  \* the finished guides, in emission order
    gpc,            \* position inside prepaint_fn: "loop", "returned", "painted"
    layout,         \* IndentGuidesLayoutState and the arguments it was built from
    \* scrollbar (scrollbar.rs)
    show_scrollbar,         \* self.show_scrollbar
    should_show_scrollbar,  \* Self::should_show_scrollbar(cx), read from the settings
    width_some,             \* self.width.is_some()
    scroll_handle,          \* UniformListScrollHandle: last_item_size, offset, bounds
    scrollbar_drag_thumb_offset,  \* Rc<Cell<Option<f32>>>, the shared drag state
    rendered,               \* what the last call of a render function returned
    \* the painted Scrollbar element and its pointer handlers (scrollbar.rs)
    scrollbar,      \* Option<Scrollbar as painted>: kind, thumb, bounds
    event,          \* the last pointer event dispatched and the state it found
    gesture,        \* progress of a press-in-thumb / drag-move / release sequence
    after_up,       \* a mouse-up was dispatched and no mouse-down since
    event_count,    \* number of pointer events dispatched so far
    was_hovered,    \* the div's hover state: the last mouse-move was over it
    up_frame        \* where the run stands between a mouse-up and the next render

guide_vars == <<indents, offset, row, indent_stack, indent_guides, gpc, layout>>

scroll_vars == <<show_scrollbar, should_show_scrollbar, width_some, scroll_handle,
                 scrollbar_drag_thumb_offset, rendered>>

pointer_vars == <<scrollbar, event, gesture, after_up, event_count, was_hovered,
                  up_frame>>

vars == <<indents, offset, row, indent_stack, indent_guides, gpc, layout,
          show_scrollbar, should_show_scrollbar, width_some, scroll_handle,
          scrollbar_drag_thumb_offset, rendered,
          scrollbar, event, gesture, after_up, event_count, was_hovered, up_frame>>

\* Option<T>
None == [is_some |-> FALSE]
Some(v) == [is_some |-> TRUE, value |-> v]

\* no render function has been called yet
NotRendered == [fn |-> "none", result |-> [kind |-> "None", zero_div |-> FALSE]]

\* no pointer event has been dispatched yet
NoEvent == [type |-> "none"]

\* no press-in-thumb / drag-move / release sequence is under way
NoGesture == [phase |-> "none"]

\* a list that has not been laid out: UniformListScrollHandle::new()
NewScrollHandle ==
    [last_item_size |-> None,
     offset         |-> [x |-> 0, y |-> 0],
     offset_unit    |-> 1,
     bounds_size    |-> [width |-> 0, height |-> 0]]

\* ------------------------------------------------------------------------
\* indent_guides.rs
\* ------------------------------------------------------------------------

\* struct IndentGuideLayout { offset: Point<usize>, length: usize }
IndentGuideLayout(x, y, length) ==
    [offset |-> [x |-> x, y |-> y], length |-> length]

\* let current_row = row + offset;
MutCurrentRowNoOffset(r, off) == r
CurrentRow(r, off) == r + off

\* for _ in 0..n { if let Some(guide) = indent_stack.pop() { indent_guides.push(guide) } }
RECURSIVE PopGuides(_, _, _)
PopGuides(stack, guides, n) ==
    IF n = 0 THEN [stack |-> stack, guides |-> guides]
    ELSE IF Len(stack) > 0
         THEN PopGuides(SubSeq(stack, 1, Len(stack) - 1),
                        Append(guides, stack[Len(stack)]), n - 1)
         ELSE PopGuides(stack, guides, n - 1)

\* for new_depth in current_depth..depth { indent_stack.push(IndentGuideLayout {
\*     offset: Point::new(new_depth, current_row), length: current_row }) }
MutPushGuidesOneLevel(stack, current_depth, depth, current_row) ==
    Append(stack, IndentGuideLayout(current_depth, current_row, current_row))
PushGuides(stack, current_depth, depth, current_row) ==
    stack \o [i \in 1..(depth - current_depth) |->
                 IndentGuideLayout(current_depth + i - 1, current_row, current_row)]

\* for indent in indent_stack.iter_mut() { indent.length = current_row - indent.offset.y + 1 }
MutUpdateLengthsExclusive(stack, current_row) ==
    [i \in 1..Len(stack) |->
        [stack[i] EXCEPT !.length = current_row - stack[i].offset.y]]
UpdateLengths(stack, current_row) ==
    [i \in 1..Len(stack) |->
        [stack[i] EXCEPT !.length = current_row - stack[i].offset.y + 1]]

\* match depth.cmp(&current_depth) { Less => pops, Greater => pushes, _ => {} }
MutAdjustNeverCloses(stack, guides, depth, current_row) ==
    IF depth > Len(stack)
    THEN [stack |-> PushGuides(stack, Len(stack), depth, current_row), guides |-> guides]
    ELSE [stack |-> stack, guides |-> guides]
MutAdjustClosesOneLevel(stack, guides, depth, current_row) ==
    LET current_depth == Len(stack) IN
    IF depth < current_depth
    THEN PopGuides(stack, guides, 1)
    ELSE IF depth > current_depth
         THEN [stack |-> PushGuides(stack, current_depth, depth, current_row),
               guides |-> guides]
         ELSE [stack |-> stack, guides |-> guides]
AdjustStack(stack, guides, depth, current_row) ==
    LET current_depth == Len(stack) IN
    IF depth < current_depth
    THEN PopGuides(stack, guides, current_depth - depth)
    ELSE IF depth > current_depth
         THEN [stack |-> PushGuides(stack, current_depth, depth, current_row),
               guides |-> guides]
         ELSE [stack |-> stack, guides |-> guides]

\* one iteration of `for (row, &depth) in indents.iter().enumerate()`
ProcessRow(stack, guides, depth, current_row) ==
    LET adjusted == AdjustStack(stack, guides, depth, current_row) IN
    [stack |-> UpdateLengths(adjusted.stack, current_row), guides |-> adjusted.guides]

\* the loop from row r on, then `indent_guides.extend(indent_stack); indent_guides`
RECURSIVE ComputeLoop(_, _, _, _, _)
ComputeLoop(ind, off, r, stack, guides) ==
    IF r >= Len(ind) THEN guides \o stack
    ELSE LET s == ProcessRow(stack, guides, ind[r + 1], CurrentRow(r, off)) IN
         ComputeLoop(ind, off, r + 1, s.stack, s.guides)

\* fn compute_indent_guides(indents: &[usize], offset: usize)
compute_indent_guides(ind, off) == ComputeLoop(ind, off, 0, <<>>, <<>>)

\* Bounds::new(bounds.origin + point(px(offset.x) * indent_size, px(offset.y) * item_height),
\*             size(px(1.), px(length) * item_height))
MutGuideBoundsSwapped(guide, origin, indent_size, item_height) ==
    [origin |-> [x |-> origin.x + guide.offset.y * indent_size,
                 y |-> origin.y + guide.offset.x * item_height],
     size   |-> [width |-> 1, height |-> guide.length * item_height]]
GuideBounds(guide, origin, indent_size, item_height) ==
    [origin |-> [x |-> origin.x + guide.offset.x * indent_size,
                 y |-> origin.y + guide.offset.y * item_height],
     size   |-> [width |-> 1, height |-> guide.length * item_height]]

\* the arguments the uniform list hands to prepaint_fn
DepthSeqs == UNION {[1..n -> 0..MaxDepth] : n \in 0..MaxRows}
Origins == {[x |-> 0, y |-> 0], [x |-> 7, y |-> 30]}
IndentSizes == {8, 16}
ItemHeights == {20, 24}

NoLayout == [bounds_origin |-> [x |-> 0, y |-> 0], indent_size |-> 0,
             item_height |-> 0, guides |-> <<>>]

\* entry of prepaint_fn: visible_entries computed, compute_indent_guides called
GuidesInit ==
    /\ indents \in DepthSeqs
    /\ offset \in 0..MaxOffset
    /\ row = 0
    /\ indent_stack = <<>>
    /\ indent_guides = <<>>
    /\ gpc = "loop"
    /\ layout = NoLayout
    /\ show_scrollbar = FALSE
    /\ should_show_scrollbar = FALSE
    /\ width_some = FALSE
    /\ scroll_handle = NewScrollHandle
    /\ scrollbar_drag_thumb_offset = None
    /\ rendered = NotRendered
    /\ scrollbar = None
    /\ event = NoEvent
    /\ gesture = NoGesture
    /\ after_up = FALSE
    /\ event_count = 0
    /\ was_hovered = FALSE
    /\ up_frame = "none"

\* one iteration of the for loop of compute_indent_guides
ComputeRow ==
    /\ gpc = "loop"
    /\ row < Len(indents)
    /\ LET s == ProcessRow(indent_stack, indent_guides, indents[row + 1],
                           CurrentRow(row, offset)) IN
       /\ indent_stack' = s.stack
       /\ indent_guides' = s.guides
    /\ row' = row + 1
    /\ UNCHANGED <<indents, offset, gpc, layout>>
    /\ UNCHANGED scroll_vars
    /\ UNCHANGED pointer_vars

\* indent_guides.extend(indent_stack); indent_guides
ComputeReturn ==
    /\ gpc = "loop"
    /\ row = Len(indents)
    /\ indent_guides' = indent_guides \o indent_stack
    /\ indent_stack' = <<>>
    /\ gpc' = "returned"
    /\ UNCHANGED <<indents, offset, row, layout>>
    /\ UNCHANGED scroll_vars
    /\ UNCHANGED pointer_vars

\* the map over the returned guides that builds IndentGuidesLayoutState
Prepaint ==
    /\ gpc = "returned"
    /\ \E origin \in Origins, indent_size \in IndentSizes, item_height \in ItemHeights :
         layout' = [bounds_origin |-> origin,
                    indent_size   |-> indent_size,
                    item_height   |-> item_height,
                    guides        |-> [i \in 1..Len(indent_guides) |->
                                          GuideBounds(indent_guides[i], origin,
                                                      indent_size, item_height)]]
    /\ gpc' = "painted"
    /\ UNCHANGED <<indents, offset, row, indent_stack, indent_guides>>
    /\ UNCHANGED scroll_vars
    /\ UNCHANGED pointer_vars

GuidesNext == ComputeRow \/ ComputeReturn \/ Prepaint

SpecGuides == GuidesInit /\ [][GuidesNext]_vars

\* ------------------------------------------------------------------------
\* scrollbar.rs: thumb geometry of render_vertical_scrollbar and
\* render_horizontal_scrollbar
\* ------------------------------------------------------------------------
\* Lengths are whole pixels; an offset is a whole number of 1/unit pixels
\* (handle.offset_unit, 1 when the offset is in whole pixels).  A fraction of
\* the track is a numerator over a stated denominator: den = total * unit
\* (total is the content length) for the intermediate values,
\* MinimumScrollbarPercentageDen * den for the thumb.

\* bound of the pixel scale: lengths are built from 10^0 .. 10^MaxExp
MaxExp == 3

\* const MINIMUM_SCROLLBAR_PERCENTAGE_HEIGHT: f64 = 0.005  (= 1 / 200)
MinimumScrollbarPercentageDen == 200

Min(a, b) == IF a <= b THEN a ELSE b
Abs(a) == IF a < 0 THEN 0 - a ELSE a

\* what a render function returns: None, Some(div with a Scrollbar of this
\* thumb range), or a panic.  zero_div records that a division by a content
\* length of 0 was evaluated on the way.
NoScrollbar(zero_div) == [kind |-> "None", zero_div |-> zero_div]
Panicked(zero_div) == [kind |-> "Panic", zero_div |-> zero_div]
Thumb(start, end, den) ==
    [kind |-> "Some", thumb |-> [start |-> start, end |-> end, den |-> den],
     zero_div |-> FALSE]

\* f64::clamp(self, min, max) panics unless min <= max
ClampPanics(lo, hi) == ~(lo <= hi)
MutClampNoUpper(x, lo, hi) == IF x < lo THEN lo ELSE x
MutClampNoLower(x, lo, hi) == IF x > hi THEN hi ELSE x
Clamp(x, lo, hi) == IF x < lo THEN lo ELSE IF x > hi THEN hi ELSE x

\* scroll_handle.last_item_size.filter(|_| scrollbar_drag_thumb_offset.get().is_some())
MutFilterIgnoresDrag(last_item_size, drag) == last_item_size
FilterDragTracked(last_item_size, drag) ==
    IF last_item_size.is_some /\ drag.is_some THEN last_item_size ELSE None

\* .filter(|size| size.contents.width > size.item.width)
FilterWiderThanItem(item_size) ==
    IF item_size.is_some /\ item_size.value.contents.width > item_size.value.item.width
    THEN item_size ELSE None

\* scroll_handle.base_handle.offset().y.0.min(0.).abs()
CurrentOffset(raw_offset) == Abs(Min(raw_offset, 0))

\* let overshoot = (end_offset - 1.).clamp(0., 1.);   (numerators over total)
Overshoot(end_num, total) == Clamp(end_num - total, 0, total)

\* if overshoot > 0. { percentage -= overshoot; }      (numerators over total)
MutPercentageNotAdjusted(current_offset, overshoot) == current_offset
AdjustPercentage(current_offset, overshoot) ==
    IF overshoot > 0 THEN current_offset - overshoot ELSE current_offset

\* percentage + MINIMUM_SCROLLBAR_PERCENTAGE_HEIGHT > 1.0 || end_offset > total_list_length
\* (the second operand compares the end fraction with the length in pixels);
\* percentage and end_num are numerators over den, total is in pixels
ThumbCannotFit(percentage, end_num, den, total) ==
    \/ MinimumScrollbarPercentageDen * percentage + den
          > MinimumScrollbarPercentageDen * den
    \/ end_num > den * total

\* total_list_length < scroll_handle.base_handle.bounds().size.height
ContentShorterThanViewport(total, viewport) == total < viewport

\* The same lines with total = 0.  IEEE division gives NaN (0/0) or +inf
\* (x/0, x > 0) and nothing is checked before the divisions:
\*   current_offset > 0:   percentage = inf, so percentage + 0.005 > 1.0: None
\*   current_offset = 0, viewport > 0: percentage = NaN, end_offset = inf,
\*                          so end_offset > total_list_length: None
\*   current_offset = 0, viewport = 0: percentage = end_offset = NaN, every
\*                          comparison is false, and end_offset.clamp(NaN, 1.)
\*                          panics (f64::clamp asserts min <= max)
ZeroLengthGeometry(current_offset, viewport) ==
    IF current_offset = 0 /\ viewport = 0 THEN Panicked(TRUE) ELSE NoScrollbar(TRUE)

\* lines 27-44 (vertical) and 109-126 (horizontal): the thumb range computed
\* from the content length, the raw scroll offset on the axis and the viewport
\* length.  total and viewport are in pixels, raw_offset in 1/unit pixels;
\* the fractions are numerators over den = total * unit.
ThumbGeometry(total, raw_offset, viewport, unit) ==
    LET current_offset == CurrentOffset(raw_offset) IN
    IF total = 0 THEN ZeroLengthGeometry(current_offset, viewport)
    ELSE
      LET den        == total * unit
          end_num    == current_offset + viewport * unit
          overshoot  == Overshoot(end_num, den)
          percentage == AdjustPercentage(current_offset, overshoot)
          lo == MinimumScrollbarPercentageDen * percentage + den
          hi == MinimumScrollbarPercentageDen * den
      IN  IF ThumbCannotFit(percentage, end_num, den, total) THEN NoScrollbar(FALSE)
          ELSE IF ContentShorterThanViewport(total, viewport) THEN NoScrollbar(FALSE)
          ELSE IF ClampPanics(lo, hi) THEN Panicked(FALSE)
          ELSE Thumb(MinimumScrollbarPercentageDen * percentage,
                     Clamp(MinimumScrollbarPercentageDen * end_num, lo, hi),
                     MinimumScrollbarPercentageDen * den)

\* pub fn render_vertical_scrollbar(...) -> Option<Stateful<Div>>
render_vertical_scrollbar(show, should_show, handle, drag) ==
    IF ~show \/ ~should_show THEN NoScrollbar(FALSE)
    ELSE LET size == FilterDragTracked(handle.last_item_size, drag) IN
         IF ~size.is_some THEN NoScrollbar(FALSE)
         ELSE ThumbGeometry(size.value.contents.height, handle.offset.y,
                            handle.bounds_size.height, handle.offset_unit)

\* pub fn render_horizontal_scrollbar(...) -> Option<Stateful<Div>>
render_horizontal_scrollbar(show, should_show, has_width, handle, drag) ==
    IF ~show \/ ~should_show \/ ~has_width THEN NoScrollbar(FALSE)
    ELSE LET size == FilterWiderThanItem(FilterDragTracked(handle.last_item_size, drag)) IN
         IF ~size.is_some THEN NoScrollbar(FALSE)
         ELSE ThumbGeometry(size.value.contents.width, handle.offset.x,
                            handle.bounds_size.width, handle.offset_unit)

\* the pixel values the list reports
RECURSIVE Pow10(_)
Pow10(k) == IF k = 0 THEN 1 ELSE 10 * Pow10(k - 1)
PxScale == {Pow10(k) : k \in 0..MaxExp}
ContentLens == {0} \cup PxScale
ViewLens == {0} \cup PxScale \cup {4 * u : u \in PxScale} \cup {6 * u : u \in PxScale}
AxisOffsets == {5, 0} \cup {0 - u : u \in PxScale} \cup {0 - 15 * u : u \in PxScale}
                  \cup {0 - 95 * u : u \in PxScale}
\* the padding between the list's bounds and its items
Paddings == {0, 2}
\* (content, viewport, offset) of one axis
AxisInputs == ContentLens \X ViewLens \X AxisOffsets
\* what the other axis holds meanwhile
CrossInputs == {<<100, 40, 0 - 10>>}
\* self.show_scrollbar, should_show_scrollbar(cx), self.width.is_some()
PanelFlags == {<<TRUE, TRUE, TRUE>>, <<FALSE, TRUE, TRUE>>,
               <<TRUE, FALSE, TRUE>>, <<TRUE, TRUE, FALSE>>}
DragStates == {None, Some([num |-> 1, den |-> 10])}

Pad(len, padding) == IF len >= padding THEN len - padding ELSE 0

\* the handle of a list laid out with the inputs h on the x axis and v on the y axis
LaidOutHandle(h, v, padding, known) ==
    [last_item_size |->
        IF known
        THEN Some([item     |-> [width |-> Pad(h[2], padding), height |-> Pad(v[2], padding)],
                   contents |-> [width |-> h[1], height |-> v[1]]])
        ELSE None,
     offset      |-> [x |-> h[3], y |-> v[3]],
     offset_unit |-> 1,
     bounds_size |-> [width |-> h[2], height |-> v[2]]]

ScrollInit ==
    /\ indents = <<>>
    /\ offset = 0
    /\ row = 0
    /\ indent_stack = <<>>
    /\ indent_guides = <<>>
    /\ gpc = "idle"
    /\ layout = NoLayout
    /\ \E f \in PanelFlags :
          /\ show_scrollbar = f[1]
          /\ should_show_scrollbar = f[2]
          /\ width_some = f[3]
    /\ \E a \in AxisInputs, c \in CrossInputs, padding \in Paddings, known \in BOOLEAN :
          \/ scroll_handle = LaidOutHandle(c, a, padding, known)
          \/ scroll_handle = LaidOutHandle(a, c, padding, known)
    /\ scrollbar_drag_thumb_offset \in DragStates
    /\ rendered = NotRendered
    /\ scrollbar = None
    /\ event = NoEvent
    /\ gesture = NoGesture
    /\ after_up = FALSE
    /\ event_count = 0
    /\ was_hovered = FALSE
    /\ up_frame = "none"

\* the parent view's render calls render_vertical_scrollbar
RenderVertical ==
    /\ rendered' = [fn |-> "vertical",
                    result |-> render_vertical_scrollbar(show_scrollbar,
                                  should_show_scrollbar, scroll_handle,
                                  scrollbar_drag_thumb_offset)]
    /\ UNCHANGED <<show_scrollbar, should_show_scrollbar, width_some, scroll_handle,
                   scrollbar_drag_thumb_offset>>
    /\ UNCHANGED guide_vars
    /\ UNCHANGED pointer_vars

\* the parent view's render calls render_horizontal_scrollbar
RenderHorizontal ==
    /\ rendered' = [fn |-> "horizontal",
                    result |-> render_horizontal_scrollbar(show_scrollbar,
                                  should_show_scrollbar, width_some, scroll_handle,
                                  scrollbar_drag_thumb_offset)]
    /\ UNCHANGED <<show_scrollbar, should_show_scrollbar, width_some, scroll_handle,
                   scrollbar_drag_thumb_offset>>
    /\ UNCHANGED guide_vars
    /\ UNCHANGED pointer_vars

ScrollNext == RenderVertical \/ RenderHorizontal

SpecScroll == ScrollInit /\ [][ScrollNext]_vars

\* ------------------------------------------------------------------------
\* scrollbar.rs: the painted Scrollbar element and the pointer handlers
\* ------------------------------------------------------------------------
\* Pixels and track fractions are f32 in the code.  Here they are exact
\* rationals [n, d] in lowest terms with d > 0, so equal values are equal
\* records; no rounding, NaN or infinity is modelled (no bounds of size 0).

RECURSIVE Gcd(_, _)
Gcd(a, b) == IF b = 0 THEN a ELSE Gcd(b, a % b)
Rat(n, d) ==
    LET g == Gcd(Abs(n), Abs(d)) IN
    IF d < 0 THEN [n |-> (0 - n) \div g, d |-> (0 - d) \div g]
    ELSE [n |-> n \div g, d |-> d \div g]
RInt(i) == [n |-> i, d |-> 1]
RAdd(a, b) == Rat(a.n * b.d + b.n * a.d, a.d * b.d)
RSub(a, b) == Rat(a.n * b.d - b.n * a.d, a.d * b.d)
RMul(a, b) == Rat(a.n * b.n, a.d * b.d)
RDiv(a, b) == Rat(a.n * b.d, a.d * b.n)
RNeg(a) == [n |-> 0 - a.n, d |-> a.d]
RLe(a, b) == a.n * b.d <= b.n * a.d
RLt(a, b) == a.n * b.d < b.n * a.d
\* f32::min
RMin(a, b) == IF RLe(a, b) THEN a ELSE b

RPoint(x, y) == [x |-> x, y |-> y]
PointAdd(p, q) == RPoint(RAdd(p.x, q.x), RAdd(p.y, q.y))
PointSub(p, q) == RPoint(RSub(p.x, q.x), RSub(p.y, q.y))

\* gpui Bounds: origin and size; from_corners, lower_right, contains (both
\* edges inclusive)
BoundsFromCorners(upper_left, lower_right) ==
    [origin |-> upper_left,
     size   |-> [width  |-> RSub(lower_right.x, upper_left.x),
                 height |-> RSub(lower_right.y, upper_left.y)]]
LowerRight(b) == RPoint(RAdd(b.origin.x, b.size.width), RAdd(b.origin.y, b.size.height))
Contains(b, p) ==
    /\ RLe(b.origin.x, p.x) /\ RLe(p.x, RAdd(b.origin.x, b.size.width))
    /\ RLe(b.origin.y, p.y) /\ RLe(p.y, RAdd(b.origin.y, b.size.height))

\* let extra_padding = px(5.0);
ExtraPadding == 5

\* let padded_bounds = if is_vertical { Bounds::from_corners(
\*     bounds.origin + point(0, extra_padding),
\*     bounds.lower_right() - point(0, extra_padding * 3)) } else { .. x .. }
PaddedBounds(kind, bounds) ==
    IF kind = "Vertical"
    THEN BoundsFromCorners(
            PointAdd(bounds.origin, RPoint(RInt(0), RInt(ExtraPadding))),
            PointSub(LowerRight(bounds), RPoint(RInt(0), RInt(ExtraPadding * 3))))
    ELSE BoundsFromCorners(
            PointAdd(bounds.origin, RPoint(RInt(ExtraPadding), RInt(0))),
            PointSub(LowerRight(bounds), RPoint(RInt(ExtraPadding * 3), RInt(0))))

\* let mut thumb_bounds = ..; then thumb_bounds.size.width /= 1.5 (vertical)
\* or thumb_bounds.size.height /= 1.5 (horizontal)
ThumbBounds(kind, thumb, bounds) ==
    LET padded == PaddedBounds(kind, bounds) IN
    IF kind = "Vertical"
    THEN LET thumb_offset == RMul(thumb.start, padded.size.height)
             thumb_end    == RMul(thumb.end, padded.size.height)
             b == BoundsFromCorners(
                     RPoint(padded.origin.x, RAdd(padded.origin.y, thumb_offset)),
                     RPoint(RAdd(padded.origin.x, padded.size.width),
                            RAdd(padded.origin.y, thumb_end)))
         IN  [b EXCEPT !.size.width = RDiv(b.size.width, Rat(3, 2))]
    ELSE LET thumb_offset == RMul(thumb.start, padded.size.width)
             thumb_end    == RMul(thumb.end, padded.size.width)
             b == BoundsFromCorners(
                     RPoint(RAdd(padded.origin.x, thumb_offset), padded.origin.y),
                     RPoint(RAdd(padded.origin.x, thumb_end),
                            RAdd(padded.origin.y, padded.size.height)))
         IN  [b EXCEPT !.size.height = RDiv(b.size.height, Rat(3, 2))]

\* let thumb_percentage_size = self.thumb.end - self.thumb.start;
ThumbPercentageSize(thumb) == RSub(thumb.end, thumb.start)

\* (event.position.y - bounds.origin.y) / bounds.size.height, or the same on x
AxisFraction(kind, bounds, position) ==
    IF kind = "Vertical"
    THEN RDiv(RSub(position.y, bounds.origin.y), bounds.size.height)
    ELSE RDiv(RSub(position.x, bounds.origin.x), bounds.size.width)

\* let percentage = percentage.min(1. - thumb_percentage_size);
MutCapPercentageBothEnds(percentage, thumb_percentage_size) ==
    LET capped == RMin(percentage, RSub(RInt(1), thumb_percentage_size)) IN
    IF RLt(capped, RInt(0)) THEN RInt(0) ELSE capped
CapPercentage(percentage, thumb_percentage_size) ==
    RMin(percentage, RSub(RInt(1), thumb_percentage_size))

\* scroll.base_handle.set_offset(point(-max_offset * percentage, offset().y))
\* (Horizontal) or point(offset().x, -max_offset * percentage) (Vertical)
MutTargetOffsetBothAxes(kind, item_size, current, percentage) ==
    RPoint(RNeg(RMul(RInt(item_size.contents.width), percentage)),
           RNeg(RMul(RInt(item_size.contents.height), percentage)))
TargetOffset(kind, item_size, current, percentage) ==
    IF kind = "Horizontal"
    THEN RPoint(RNeg(RMul(RInt(item_size.contents.width), percentage)), current.y)
    ELSE RPoint(current.x, RNeg(RMul(RInt(item_size.contents.height), percentage)))

\* what a handler leaves behind: the scroll offset, the drag state and whether
\* it called cx.notify
Outcome(new_offset, drag, notified) ==
    [offset |-> new_offset, drag |-> drag, notified |-> notified]

\* let thumb_offset = (event.position.y - thumb_bounds.origin.y) / bounds.size.height
MutThumbOffsetFromBounds(sb, position) == AxisFraction(sb.kind, sb.bounds, position)
ThumbOffset(sb, position) ==
    IF sb.kind = "Vertical"
    THEN RDiv(RSub(position.y, sb.thumb_bounds.origin.y), sb.bounds.size.height)
    ELSE RDiv(RSub(position.x, sb.thumb_bounds.origin.x), sb.bounds.size.width)

\* cx.on_mouse_event(move |event: &MouseDownEvent, phase, _cx| ..), bubble phase
MutMouseDownAlwaysDrags(sb, handle, drag, position) ==
    IF Contains(sb.bounds, position)
    THEN Outcome(handle.offset, Some(ThumbOffset(sb, position)), FALSE)
    ELSE Outcome(handle.offset, drag, FALSE)
OnMouseDown(sb, handle, drag, position) ==
    IF ~Contains(sb.bounds, position) THEN Outcome(handle.offset, drag, FALSE)
    ELSE IF ~Contains(sb.thumb_bounds, position)
    THEN IF handle.last_item_size.is_some
         THEN Outcome(TargetOffset(sb.kind, handle.last_item_size.value, handle.offset,
                         CapPercentage(AxisFraction(sb.kind, sb.bounds, position),
                                       sb.thumb_percentage_size)),
                      drag, FALSE)
         ELSE Outcome(handle.offset, drag, FALSE)
    ELSE Outcome(handle.offset, Some(ThumbOffset(sb, position)), FALSE)

\* cx.on_mouse_event(move |event: &ScrollWheelEvent, phase, cx| ..), bubble phase;
\* pixel_delta is event.delta.pixel_delta(cx.line_height())
MutWheelIgnoresBounds(sb, handle, drag, position, pixel_delta) ==
    Outcome(PointAdd(handle.offset, pixel_delta), drag, FALSE)
OnScrollWheel(sb, handle, drag, position, pixel_delta) ==
    IF Contains(sb.bounds, position)
    THEN Outcome(PointAdd(handle.offset, pixel_delta), drag, FALSE)
    ELSE Outcome(handle.offset, drag, FALSE)

\* cx.on_mouse_event(move |event: &MouseMoveEvent, _, cx| ..): no phase and no
\* bounds test; it runs in the capture and in the bubble phase with the same
\* result.  dragging is event.dragging().
MutMouseMoveOnlyInsideBounds(sb, handle, drag, position, dragging) ==
    IF drag.is_some /\ dragging /\ Contains(sb.bounds, position)
    THEN IF handle.last_item_size.is_some
         THEN Outcome(TargetOffset(sb.kind, handle.last_item_size.value, handle.offset,
                         CapPercentage(RSub(AxisFraction(sb.kind, sb.bounds, position),
                                            drag.value),
                                       sb.thumb_percentage_size)),
                      drag, TRUE)
         ELSE Outcome(handle.offset, drag, FALSE)
    ELSE Outcome(handle.offset, IF drag.is_some /\ dragging THEN drag ELSE None, FALSE)
MutMouseMoveIgnoresAnchor(sb, handle, drag, position, dragging) ==
    IF drag.is_some /\ dragging
    THEN IF handle.last_item_size.is_some
         THEN Outcome(TargetOffset(sb.kind, handle.last_item_size.value, handle.offset,
                         CapPercentage(AxisFraction(sb.kind, sb.bounds, position),
                                       sb.thumb_percentage_size)),
                      drag, TRUE)
         ELSE Outcome(handle.offset, drag, FALSE)
    ELSE Outcome(handle.offset, None, FALSE)
MutMouseMoveKeepsStaleDrag(sb, handle, drag, position, dragging) ==
    IF drag.is_some
    THEN IF handle.last_item_size.is_some
         THEN Outcome(TargetOffset(sb.kind, handle.last_item_size.value, handle.offset,
                         CapPercentage(RSub(AxisFraction(sb.kind, sb.bounds, position),
                                            drag.value),
                                       sb.thumb_percentage_size)),
                      drag, TRUE)
         ELSE Outcome(handle.offset, drag, FALSE)
    ELSE Outcome(handle.offset, None, FALSE)
OnMouseMove(sb, handle, drag, position, dragging) ==
    IF drag.is_some /\ dragging
    THEN IF handle.last_item_size.is_some
         THEN Outcome(TargetOffset(sb.kind, handle.last_item_size.value, handle.offset,
                         CapPercentage(RSub(AxisFraction(sb.kind, sb.bounds, position),
                                            drag.value),
                                       sb.thumb_percentage_size)),
                      drag, TRUE)
         ELSE Outcome(handle.offset, drag, FALSE)
    ELSE Outcome(handle.offset, None, FALSE)

\* cx.on_mouse_event(move |_event: &MouseUpEvent, phase, cx| ..), bubble phase
MutMouseUpOnlyInsideBounds(sb, handle, drag, position) ==
    IF Contains(sb.bounds, position) THEN Outcome(handle.offset, None, TRUE)
    ELSE Outcome(handle.offset, drag, FALSE)
OnMouseUp(sb, handle, drag, position) == Outcome(handle.offset, None, TRUE)

\* The listeners of the div that render_*_scrollbar wraps around the Scrollbar
\* (.on_mouse_move, .on_hover, .on_any_mouse_down, .on_mouse_up(Left, ..),
\* .on_scroll_wheel).  The div is painted before its child, so in the bubble
\* phase its listeners run after the Scrollbar's own handlers.  on_mouse_move,
\* on_any_mouse_down, on_mouse_up and on_scroll_wheel run only while the
\* pointer is over the div (hovered), on_mouse_up only for the left button.
\* on_hover runs inside the dispatch of the MouseMoveEvent that changes the
\* div's hover state (hover_changed), on entering and on leaving; its closure
\* ignores the bool and calls stop_propagation, and it runs before
\* on_mouse_move, which then does not run.  drag is the drag state the
\* Scrollbar's handler left behind.
\*   hide: this.hide_scrollbar(cx) was called
DivListeners(type, button, hovered, hover_changed, drag, focused) ==
    IF type = "move"
    THEN IF hover_changed THEN [notified |-> FALSE, stopped |-> TRUE,  hide |-> FALSE]
         ELSE IF hovered  THEN [notified |-> TRUE,  stopped |-> TRUE,  hide |-> FALSE]
         ELSE [notified |-> FALSE, stopped |-> FALSE, hide |-> FALSE]
    ELSE IF ~hovered THEN [notified |-> FALSE, stopped |-> FALSE, hide |-> FALSE]
    ELSE IF type = "down"  THEN [notified |-> FALSE, stopped |-> TRUE,  hide |-> FALSE]
    ELSE IF type = "up"
         THEN IF button = "Left"
              THEN [notified |-> ~drag.is_some /\ ~focused, stopped |-> TRUE,
                    hide |-> ~drag.is_some /\ ~focused]
              ELSE [notified |-> FALSE, stopped |-> FALSE, hide |-> FALSE]
    ELSE \* "wheel"
         [notified |-> TRUE, stopped |-> FALSE, hide |-> FALSE]

\* this.hide_scrollbar(cx): the values self.show_scrollbar can have afterwards
\* (the host list may hide the scrollbar)
hide_scrollbar(show) == {FALSE, show}

\* bound on the number of pointer events dispatched after one paint
MaxEvents == 3

MouseButtons == {"Left", "Right"}

\* bounds of the painted Scrollbar element: 12 px across, the track along the axis
ScrollbarBounds(kind) ==
    IF kind = "Vertical"
    THEN [origin |-> RPoint(RInt(200), RInt(4)),
          size   |-> [width |-> RInt(12), height |-> RInt(120)]]
    ELSE [origin |-> RPoint(RInt(4), RInt(300)),
          size   |-> [width |-> RInt(120), height |-> RInt(12)]]

\* pointer positions: along the axis before the track, inside it (in and
\* between the thumbs of PointerAxisInputs) and beyond it; across the axis over
\* the thumb and off the element
AlongAxis == {0 - 6, 20, 60, 100, 130}
RelativePositions == {<<a, 2>> : a \in AlongAxis} \cup {<<60, 30>>}
VerticalPositions ==
    LET b == ScrollbarBounds("Vertical") IN
    {RPoint(RAdd(b.origin.x, RInt(r[2])), RAdd(b.origin.y, RInt(r[1]))) :
        r \in RelativePositions}
HorizontalPositions ==
    LET b == ScrollbarBounds("Horizontal") IN
    {RPoint(RAdd(b.origin.x, RInt(r[1])), RAdd(b.origin.y, RInt(r[2]))) :
        r \in RelativePositions}
PointerPositions(kind) ==
    IF kind = "Vertical" THEN VerticalPositions ELSE HorizontalPositions

\* event.delta.pixel_delta(cx.line_height())
WheelDeltas == {RPoint(RInt(12), RInt(0 - 30))}

\* (content, viewport, offset) on the scrollbar's axis when the frame was rendered
PointerAxisInputs == {<<400, 100, 0 - 200>>, <<1000, 100, 0 - 950>>}

\* the thumb range a render function returned, as Scrollbar::vertical /
\* Scrollbar::horizontal receive it (percentage..end_offset)
ThumbRange(result) ==
    [start |-> Rat(result.thumb.start, result.thumb.den),
     end   |-> Rat(result.thumb.end, result.thumb.den)]

\* the handle as the handlers see it: the offset in (rational) pixels
HandleInPixels(handle) ==
    [handle EXCEPT !.offset = RPoint(RInt(handle.offset.x), RInt(handle.offset.y))]

\* Scrollbar::paint: the values its handlers capture (kind, thumb, bounds,
\* thumb_bounds, thumb_percentage_size)
PaintedScrollbar(kind, thumb, bounds) ==
    [kind   |-> kind,
     thumb  |-> thumb,
     bounds |-> bounds,
     thumb_bounds |-> ThumbBounds(kind, thumb, bounds),
     thumb_percentage_size |-> ThumbPercentageSize(thumb)]

\* A frame has been rendered and painted: the render function of `kind` was
\* called with the drag state drag0, and if it returned Some the Scrollbar was
\* painted and its handlers registered.
PaintedFrame(kind, a, c, drag0) ==
    LET handle == IF kind = "Vertical" THEN LaidOutHandle(c, a, 0, TRUE)
                  ELSE LaidOutHandle(a, c, 2, TRUE)
        result == IF kind = "Vertical"
                  THEN render_vertical_scrollbar(TRUE, TRUE, handle, drag0)
                  ELSE render_horizontal_scrollbar(TRUE, TRUE, TRUE, handle, drag0)
    IN  /\ show_scrollbar = TRUE
        /\ should_show_scrollbar = TRUE
        /\ width_some = TRUE
        /\ scroll_handle = HandleInPixels(handle)
        /\ scrollbar_drag_thumb_offset = drag0
        /\ rendered = [fn |-> IF kind = "Vertical" THEN "vertical" ELSE "horizontal",
                       result |-> result]
        /\ scrollbar = IF result.kind = "Some"
                       THEN Some(PaintedScrollbar(kind, ThumbRange(result),
                                                  ScrollbarBounds(kind)))
                       ELSE None

PointerInit ==
    /\ indents = <<>>
    /\ offset = 0
    /\ row = 0
    /\ indent_stack = <<>>
    /\ indent_guides = <<>>
    /\ gpc = "idle"
    /\ layout = NoLayout
    /\ \E kind \in {"Vertical", "Horizontal"}, a \in PointerAxisInputs, c \in CrossInputs :
          PaintedFrame(kind, a, c, Some(Rat(1, 10)))
    /\ event = NoEvent
    /\ gesture = NoGesture
    /\ after_up = FALSE
    /\ event_count = 0
    /\ was_hovered \in BOOLEAN
    /\ up_frame = "none"

\* the record of a dispatched event: its inputs, the state it found, and what
\* the listeners did
EventRecord(type, position, button, dragging, focused, delta, out, div) ==
    [type |-> type, position |-> position, button |-> button, dragging |-> dragging,
     focused |-> focused, delta |-> delta,
     inside_bounds |-> Contains(scrollbar.value.bounds, position),
     hover_changed |-> type = "move"
                          /\ Contains(scrollbar.value.bounds, position) # was_hovered,
     inside_thumb  |-> Contains(scrollbar.value.thumb_bounds, position),
     prev_offset |-> scroll_handle.offset,
     prev_drag   |-> scrollbar_drag_thumb_offset,
     notified    |-> out.notified \/ div.notified,
     stopped     |-> div.stopped]

ZeroDelta == RPoint(RInt(0), RInt(0))

\* a MouseDownEvent is dispatched
MouseDown ==
    /\ scrollbar.is_some
    /\ event_count < MaxEvents
    /\ event_count' = event_count + 1
    /\ \E position \in PointerPositions(scrollbar.value.kind), button \in MouseButtons :
         LET sb  == scrollbar.value
             out == OnMouseDown(sb, scroll_handle, scrollbar_drag_thumb_offset, position)
             div == DivListeners("down", button, Contains(sb.bounds, position), FALSE,
                                 out.drag, FALSE)
         IN  /\ scroll_handle' = [scroll_handle EXCEPT !.offset = out.offset]
             /\ scrollbar_drag_thumb_offset' = out.drag
             /\ event' = EventRecord("down", position, button, FALSE, FALSE, ZeroDelta,
                                     out, div)
             /\ gesture' = IF /\ Contains(sb.bounds, position)
                              /\ Contains(sb.thumb_bounds, position)
                           THEN [phase |-> "pressed", anchor |-> out.drag.value]
                           ELSE NoGesture
             /\ up_frame' = IF /\ up_frame = "up"
                               /\ Contains(sb.bounds, position)
                               /\ Contains(sb.thumb_bounds, position)
                            THEN "pressed"
                            ELSE up_frame
    /\ after_up' = FALSE
    /\ UNCHANGED <<show_scrollbar, should_show_scrollbar, width_some, rendered,
                   scrollbar, was_hovered>>
    /\ UNCHANGED guide_vars

\* a MouseMoveEvent is dispatched
MouseMove ==
    /\ scrollbar.is_some
    /\ event_count < MaxEvents
    /\ event_count' = event_count + 1
    /\ \E position \in PointerPositions(scrollbar.value.kind), dragging \in BOOLEAN :
         LET sb  == scrollbar.value
             out == OnMouseMove(sb, scroll_handle, scrollbar_drag_thumb_offset,
                                position, dragging)
             div == DivListeners("move", "Left", Contains(sb.bounds, position),
                                 Contains(sb.bounds, position) # was_hovered,
                                 out.drag, FALSE)
         IN  /\ scroll_handle' = [scroll_handle EXCEPT !.offset = out.offset]
             /\ scrollbar_drag_thumb_offset' = out.drag
             /\ event' = EventRecord("move", position, "Left", dragging, FALSE,
                                     ZeroDelta, out, div)
             /\ was_hovered' = Contains(sb.bounds, position)
             /\ gesture' = IF /\ gesture.phase \in {"pressed", "moved"}
                              /\ scrollbar_drag_thumb_offset.is_some
                              /\ dragging
                           THEN [phase |-> "moved", anchor |-> gesture.anchor,
                                 position |-> position]
                           ELSE NoGesture
    /\ UNCHANGED <<show_scrollbar, should_show_scrollbar, width_some, rendered,
                   scrollbar, after_up, up_frame>>
    /\ UNCHANGED guide_vars

\* a MouseUpEvent is dispatched; focused is parent_focus_handle.contains_focused(cx)
MouseUp ==
    /\ scrollbar.is_some
    /\ event_count < MaxEvents
    /\ event_count' = event_count + 1
    /\ \E position \in PointerPositions(scrollbar.value.kind), button \in MouseButtons,
          focused \in BOOLEAN :
         LET sb  == scrollbar.value
             out == OnMouseUp(sb, scroll_handle, scrollbar_drag_thumb_offset, position)
             div == DivListeners("up", button, Contains(sb.bounds, position), FALSE,
                                 out.drag, focused)
         IN  /\ scroll_handle' = [scroll_handle EXCEPT !.offset = out.offset]
             /\ scrollbar_drag_thumb_offset' = out.drag
             /\ show_scrollbar' \in IF div.hide THEN hide_scrollbar(show_scrollbar)
                                    ELSE {show_scrollbar}
             /\ event' = EventRecord("up", position, button, FALSE, focused, ZeroDelta,
                                     out, div)
             /\ gesture' = IF gesture.phase = "moved"
                           THEN [phase |-> "released", anchor |-> gesture.anchor,
                                 position |-> gesture.position]
                           ELSE NoGesture
    /\ after_up' = TRUE
    /\ up_frame' = "up"
    /\ UNCHANGED <<should_show_scrollbar, width_some, rendered, scrollbar, was_hovered>>
    /\ UNCHANGED guide_vars

\* a ScrollWheelEvent is dispatched
ScrollWheel ==
    /\ scrollbar.is_some
    /\ event_count < MaxEvents
    /\ \E position \in PointerPositions(scrollbar.value.kind), delta \in WheelDeltas :
         LET sb  == scrollbar.value
             out == OnScrollWheel(sb, scroll_handle, scrollbar_drag_thumb_offset,
                                  position, delta)
             div == DivListeners("wheel", "Left", Contains(sb.bounds, position), FALSE,
                                 out.drag, FALSE)
         IN  /\ scroll_handle' = [scroll_handle EXCEPT !.offset = out.offset]
             /\ scrollbar_drag_thumb_offset' = out.drag
             /\ event' = EventRecord("wheel", position, "Left", FALSE, FALSE, delta,
                                     out, div)
    /\ gesture' = NoGesture
    /\ event_count' = event_count + 1
    /\ UNCHANGED <<show_scrollbar, should_show_scrollbar, width_some, rendered,
                   scrollbar, after_up, was_hovered, up_frame>>
    /\ UNCHANGED guide_vars

PointerNext == MouseDown \/ MouseMove \/ MouseUp \/ ScrollWheel

SpecPointer == PointerInit /\ [][PointerNext]_vars

\* ------------------------------------------------------------------------
\* scrollbar.rs: frames.  The parent view renders again, the render function
\* reads the shared drag state and the handle, and the Scrollbar it returns
\* (if any) is painted and registers the handlers of the new frame; with None
\* returned nothing is painted and no handler is registered.
\* ------------------------------------------------------------------------

\* the shared drag state when the first frame is rendered: Rc<Cell<Option<f32>>>
FrameDragStates == {None, Some(Rat(1, 10))}

\* the first frame has been rendered (and painted, if a Scrollbar was returned)
FramesInit ==
    /\ indents = <<>>
    /\ offset = 0
    /\ row = 0
    /\ indent_stack = <<>>
    /\ indent_guides = <<>>
    /\ gpc = "idle"
    /\ layout = NoLayout
    /\ \E kind \in {"Vertical", "Horizontal"}, a \in PointerAxisInputs, c \in CrossInputs,
          drag0 \in FrameDragStates :
          PaintedFrame(kind, a, c, drag0)
    /\ event = NoEvent
    /\ gesture = NoGesture
    /\ after_up = FALSE
    /\ event_count = 0
    /\ was_hovered \in BOOLEAN
    /\ up_frame = "none"

\* The handle as the render functions read it: offset() converted to f64.
\* The two coordinates are brought to a common denominator offset_unit and
\* kept as its numerators.
HandleForRender(handle) ==
    LET dx == handle.offset.x.d
        dy == handle.offset.y.d
        unit == (dx * dy) \div Gcd(dx, dy)
    IN  [handle EXCEPT !.offset = [x |-> handle.offset.x.n * (unit \div dx),
                                   y |-> handle.offset.y.n * (unit \div dy)],
                       !.offset_unit = unit]

\* The next frame: the render function of the same kind is called again and
\* its result painted in place of the previous frame's Scrollbar.
RenderFrame ==
    /\ rendered.fn # "none"
    /\ LET kind   == IF rendered.fn = "vertical" THEN "Vertical" ELSE "Horizontal"
           handle == HandleForRender(scroll_handle)
           result == IF kind = "Vertical"
                     THEN render_vertical_scrollbar(show_scrollbar, should_show_scrollbar,
                                                    handle, scrollbar_drag_thumb_offset)
                     ELSE render_horizontal_scrollbar(show_scrollbar, should_show_scrollbar,
                                                      width_some, handle,
                                                      scrollbar_drag_thumb_offset)
       IN  /\ rendered' = [fn |-> rendered.fn, result |-> result]
           /\ scrollbar' = IF result.kind = "Some"
                           THEN Some(PaintedScrollbar(kind, ThumbRange(result),
                                                      ScrollbarBounds(kind)))
                           ELSE None
    /\ up_frame' = IF up_frame = "up" THEN "rendered"
                    ELSE IF up_frame = "pressed" THEN "rendered_pressed"
                    ELSE "none"
    /\ UNCHANGED <<show_scrollbar, should_show_scrollbar, width_some, scroll_handle,
                   scrollbar_drag_thumb_offset, event, gesture, after_up, event_count,
                   was_hovered>>
    /\ UNCHANGED guide_vars

FramesNext == RenderFrame \/ MouseDown \/ MouseMove \/ MouseUp \/ ScrollWheel

SpecFrames == FramesInit /\ [][FramesNext]_vars

\* ------------------------------------------------------------------------
\* Claims about compute_indent_guides and the decoration (SpecGuides)
\* ------------------------------------------------------------------------

\* the absolute rows a segment covers
SegmentRows(g) == g.offset.y .. (g.offset.y + g.length - 1)

\* the (column, absolute row) cells the segments cover
CoveredCells(guides) ==
    UNION {{<<guides[i].offset.x, r>> : r \in SegmentRows(guides[i])} :
              i \in 1..Len(guides)}

\* the cells with depths[row - row_offset] > column
DepthCells(ind, off) ==
    {c \in (0..MaxDepth) \X (off..(off + Len(ind) - 1)) : ind[c[2] - off + 1] > c[1]}

SameColumnDisjoint(guides) ==
    \A i, j \in 1..Len(guides) :
        (i # j /\ guides[i].offset.x = guides[j].offset.x)
            => SegmentRows(guides[i]) \cap SegmentRows(guides[j]) = {}

\* C1: once compute_indent_guides has returned, the cells covered by the
\* returned segments are exactly the cells with depths[row - row_offset] >
\* column, and no two segments of one column share a row.
C1_SegmentsCoverExactly ==
    gpc # "loop" =>
        /\ CoveredCells(indent_guides) = DepthCells(indents, offset)
        /\ SameColumnDisjoint(indent_guides)

\* C1 witness: a returned result with row_offset > 0 holding a multi-row segment
\* and a deeper segment nested inside it.
C1_Witness ==
    /\ gpc = "returned"
    /\ offset > 0
    /\ \E i, j \in 1..Len(indent_guides) :
          /\ indent_guides[i].offset.x < indent_guides[j].offset.x
          /\ indent_guides[i].length > indent_guides[j].length
          /\ indent_guides[j].length >= 1

\* rows a..b (1-based input positions) are a maximal run of depth >= k+1
IsMaximalRun(ind, k, a, b) ==
    /\ a <= b
    /\ \A i \in a..b : ind[i] >= k + 1
    /\ (a = 1 \/ ind[a - 1] <= k)
    /\ (b = Len(ind) \/ ind[b + 1] <= k)

\* one segment per maximal run: column k, first row of the run, rows in the run
RunSegments(ind, off) ==
    {IndentGuideLayout(t[1], off + t[2] - 1, t[3] - t[2] + 1) :
        t \in {u \in (0..MaxDepth) \X (1..Len(ind)) \X (1..Len(ind)) :
                  IsMaximalRun(ind, u[1], u[2], u[3])}}

SeqRange(s) == {s[i] : i \in 1..Len(s)}

\* C2: the returned segments are exactly one segment per column k and maximal
\* run of rows with depth >= k+1 (start_row the first row of the run, length its
\* number of rows), without duplicates; runs separated by a row of depth <= k
\* are distinct segments; an all-zero or empty sequence returns nothing.
C2_OneSegmentPerMaximalRun ==
    gpc # "loop" =>
        /\ SeqRange(indent_guides) = RunSegments(indents, offset)
        /\ Len(indent_guides) = Cardinality(RunSegments(indents, offset))
        /\ (\A i \in 1..Len(indents) : indents[i] = 0) => indent_guides = <<>>

\* C2 witness: two distinct returned segments of the same column, separated by
\* a shallower row.
C2_Witness ==
    /\ gpc = "returned"
    /\ \E i, j \in 1..Len(indent_guides) :
          /\ indent_guides[i].offset.x = indent_guides[j].offset.x
          /\ indent_guides[i].offset.y + indent_guides[i].length
                < indent_guides[j].offset.y

ShiftRows(guides, off) ==
    [i \in 1..Len(guides) |->
        IndentGuideLayout(guides[i].offset.x, guides[i].offset.y + off, guides[i].length)]

\* C3: the segments returned for (depths, row_offset) are the segments
\* returned for (depths, 0), in the same order, with every start_row increased
\* by row_offset and every column and length unchanged.
C3_RowsAreAbsolute ==
    gpc # "loop" =>
        indent_guides = ShiftRows(compute_indent_guides(indents, 0), offset)

\* C3 witness: a result of at least two segments computed with row_offset >= 2.
C3_Witness ==
    /\ gpc = "returned"
    /\ offset >= 2
    /\ Len(indent_guides) >= 2

\* C4 (as amended): prepaint produces one rectangle per segment, in order, with
\* origin bounds.origin + (column * indent_size, start_row * item_height), where
\* start_row is the absolute row (row_offset is not subtracted), and size
\* (1, length * item_height); a guide starting at the first visible row lies
\* row_offset * item_height below bounds.origin.
C4_PrepaintUsesAbsoluteRows ==
    gpc = "painted" =>
        /\ Len(layout.guides) = Len(indent_guides)
        /\ \A i \in 1..Len(indent_guides) :
              /\ layout.guides[i].origin.x =
                    layout.bounds_origin.x + indent_guides[i].offset.x * layout.indent_size
              /\ layout.guides[i].origin.y =
                    layout.bounds_origin.y + indent_guides[i].offset.y * layout.item_height
              /\ layout.guides[i].size =
                    [width |-> 1, height |-> indent_guides[i].length * layout.item_height]
              /\ (indent_guides[i].offset.y = offset) =>
                    layout.guides[i].origin.y - layout.bounds_origin.y
                        = offset * layout.item_height

\* C4 (original statement): the rectangle's origin is bounds.origin +
\* (column * indent_size, (start_row - row_offset) * item_height), so a guide
\* starting at the first visible row sits at the top edge for any row_offset.
C4_PrepaintWindowRelative ==
    gpc = "painted" =>
        /\ Len(layout.guides) = Len(indent_guides)
        /\ \A i \in 1..Len(indent_guides) :
              /\ layout.guides[i].origin.x =
                    layout.bounds_origin.x + indent_guides[i].offset.x * layout.indent_size
              /\ layout.guides[i].origin.y =
                    layout.bounds_origin.y
                        + (indent_guides[i].offset.y - offset) * layout.item_height
              /\ layout.guides[i].size =
                    [width |-> 1, height |-> indent_guides[i].length * layout.item_height]

\* C4 witness: rectangles built for a window starting at row_offset > 0, one of
\* them for a guide that starts at the first visible row, another for a guide
\* in a deeper column.
C4_Witness ==
    /\ gpc = "painted"
    /\ offset > 0
    /\ \E i, j \in 1..Len(indent_guides) :
          /\ indent_guides[i].offset.y = offset
          /\ indent_guides[j].offset.x > 0
          /\ layout.guides[j].origin.x > layout.bounds_origin.x

\* ------------------------------------------------------------------------
\* Claims about the scrollbar geometry (SpecScroll)
\* ------------------------------------------------------------------------

\* a render function has returned
Rendered == rendered.fn # "none"
SizeKnown == scroll_handle.last_item_size.is_some
AllShown == show_scrollbar /\ should_show_scrollbar /\ width_some

\* content length, viewport length and scroll offset on the axis of the
\* render function that was called
AxisContent ==
    IF rendered.fn = "vertical"
    THEN scroll_handle.last_item_size.value.contents.height
    ELSE scroll_handle.last_item_size.value.contents.width
AxisViewport ==
    IF rendered.fn = "vertical" THEN scroll_handle.bounds_size.height
    ELSE scroll_handle.bounds_size.width
AxisOffset ==
    IF rendered.fn = "vertical" THEN scroll_handle.offset.y ELSE scroll_handle.offset.x

\* numerators over AxisContent of the raw start and end fractions
RawStartNum == IF AxisOffset < 0 THEN 0 - AxisOffset ELSE 0
RawEndNum == RawStartNum + AxisViewport

ThumbReturned == Rendered /\ rendered.result.kind = "Some"

\* C5: whenever the content length is <= the viewport length (equality
\* included) the render function returns no thumb, for every scroll offset.
C5_NoThumbWhenContentFits ==
    (Rendered /\ SizeKnown /\ AxisContent <= AxisViewport)
        => rendered.result.kind # "Some"

\* C6: every returned thumb range satisfies 0 <= start <= end <= 1, and with a
\* content length > 0 the final clamp never gets a lower bound above 1 (no
\* panic).
C6_ThumbWithinTrack ==
    /\ ThumbReturned =>
          /\ rendered.result.thumb.den > 0
          /\ 0 <= rendered.result.thumb.start
          /\ rendered.result.thumb.start <= rendered.result.thumb.end
          /\ rendered.result.thumb.end <= rendered.result.thumb.den
    /\ (Rendered /\ SizeKnown /\ AxisContent > 0) => rendered.result.kind # "Panic"

\* C6 witness: a thumb strictly inside the track, away from both ends.
C6_Witness ==
    /\ ThumbReturned
    /\ 0 < rendered.result.thumb.start
    /\ rendered.result.thumb.start < rendered.result.thumb.end
    /\ rendered.result.thumb.end < rendered.result.thumb.den

\* C7 (original statement): whenever the raw end fraction exceeds 1 and a thumb
\* is returned, end = 1, start = raw start - (raw end - 1), and
\* end - start = viewport_len / content_len, for every amount of overshoot.
\* (The thumb's numerators are over den = 200 * content_len, so the length
\* viewport_len / content_len is the numerator 200 * viewport_len.)
C7_OvershootAlwaysPreservesLength ==
    (ThumbReturned /\ RawEndNum > AxisContent) =>
        /\ rendered.result.thumb.end = rendered.result.thumb.den
        /\ rendered.result.thumb.start =
              MinimumScrollbarPercentageDen * (RawStartNum - (RawEndNum - AxisContent))
        /\ rendered.result.thumb.den = MinimumScrollbarPercentageDen * AxisContent
        /\ rendered.result.thumb.end - rendered.result.thumb.start
              = MinimumScrollbarPercentageDen * AxisViewport

\* C7 (as amended): whenever the raw end fraction exceeds 1 and a thumb is
\* returned, end = 1 and start = raw start - min(raw end - 1, 1); while the raw
\* end is at most 2 this keeps end - start = viewport_len / content_len.
C7_OvershootUpToOnePreservesLength ==
    (ThumbReturned /\ RawEndNum > AxisContent) =>
        /\ rendered.result.thumb.end = rendered.result.thumb.den
        /\ rendered.result.thumb.start =
              MinimumScrollbarPercentageDen
                 * (RawStartNum - Min(RawEndNum - AxisContent, AxisContent))
        /\ rendered.result.thumb.den = MinimumScrollbarPercentageDen * AxisContent
        /\ (RawEndNum <= 2 * AxisContent) =>
              rendered.result.thumb.end - rendered.result.thumb.start
                 = MinimumScrollbarPercentageDen * AxisViewport

\* C7 witness: a thumb returned after an overshoot of at most 1 that moved the
\* start back from its raw value.
C7_Witness ==
    /\ ThumbReturned
    /\ RawEndNum > AxisContent
    /\ RawEndNum <= 2 * AxisContent
    /\ rendered.result.thumb.start < MinimumScrollbarPercentageDen * RawStartNum
    /\ rendered.result.thumb.start > 0

\* numerator over AxisContent of the start fraction after the overshoot
\* correction
AdjustedStartNum ==
    LET over == RawEndNum - AxisContent IN
    IF over <= 0 THEN RawStartNum ELSE RawStartNum - Min(over, AxisContent)

\* C8: every returned thumb has end - start >= 0.005, and no thumb is returned
\* when start + 0.005 > 1.0.
C8_MinimumThumbSize ==
    /\ ThumbReturned =>
          (rendered.result.thumb.end - rendered.result.thumb.start)
              * MinimumScrollbarPercentageDen >= rendered.result.thumb.den
    /\ (/\ Rendered /\ SizeKnown /\ AxisContent > 0
        /\ MinimumScrollbarPercentageDen * AdjustedStartNum + AxisContent
              > MinimumScrollbarPercentageDen * AxisContent)
          => rendered.result.kind # "Some"

\* C8 witness: a viewport shorter than 0.005 of the content, whose thumb was
\* stretched to exactly 0.005 of the track.
C8_Witness ==
    /\ ThumbReturned
    /\ AxisViewport > 0
    /\ AxisViewport * MinimumScrollbarPercentageDen < AxisContent
    /\ (rendered.result.thumb.end - rendered.result.thumb.start)
          * MinimumScrollbarPercentageDen = rendered.result.thumb.den

\* C9: with last_item_size absent or the shared drag state None the render
\* function returns None, whatever the offset, viewport and content are.
C9_NoThumbWithoutSizeOrDrag ==
    (Rendered /\ (~SizeKnown \/ ~scrollbar_drag_thumb_offset.is_some))
        => rendered.result = NoScrollbar(FALSE)

\* C9 witness: the vertical render returned None with every flag set, the
\* content known and longer than the viewport, and only the drag state None.
C9_Witness ==
    /\ rendered.fn = "vertical"
    /\ AllShown
    /\ SizeKnown
    /\ ~scrollbar_drag_thumb_offset.is_some
    /\ AxisContent > AxisViewport
    /\ AxisViewport > 0
    /\ rendered.result.kind = "None"

\* C10: with a content length of 0 the render function returns None before any
\* division by the content length is evaluated.
C10_NoDivisionByZeroLength ==
    (Rendered /\ SizeKnown /\ AxisContent = 0)
        => (rendered.result.kind = "None" /\ ~rendered.result.zero_div)

\* ------------------------------------------------------------------------
\* compute_indent_guides: the open-guide stack (C20)
\* ------------------------------------------------------------------------

\* the pops the next iteration of the loop requests (0 when it does not close)
PopsRequested ==
    IF row < Len(indents) /\ indents[row + 1] < Len(indent_stack)
    THEN Len(indent_stack) - indents[row + 1]
    ELSE 0

\* C20: inside the loop, after a row of depth d was processed the stack holds
\* exactly d guides and the guide at height i above the bottom (from 0) has
\* column i; the pops the next row requests never exceed the stack size, and
\* every one of them moves a guide to the output (indent_stack.pop() never
\* returns None).
C20_StackMirrorsDepth ==
    gpc = "loop" =>
        /\ row > 0 => Len(indent_stack) = indents[row]
        /\ \A i \in 1..Len(indent_stack) : indent_stack[i].offset.x = i - 1
        /\ PopsRequested <= Len(indent_stack)
        /\ LET popped == PopGuides(indent_stack, indent_guides, PopsRequested) IN
              /\ Len(popped.stack) = Len(indent_stack) - PopsRequested
              /\ Len(popped.guides) = Len(indent_guides) + PopsRequested

\* C20 witness: a row that opened two guides at once has been processed and
\* the next row closes both of them.
C20_Witness ==
    /\ gpc = "loop"
    /\ row >= 2
    /\ row < Len(indents)
    /\ indents[row] >= indents[row - 1] + 2
    /\ Len(indent_stack) = indents[row]
    /\ PopsRequested >= 2

\* ------------------------------------------------------------------------
\* Scrollbar::paint: pointer handlers (C11 - C19), checked under SpecPointer
\* ------------------------------------------------------------------------

\* the painted Scrollbar and the values on its own axis
Sb == scrollbar.value
AxisOf(p) == IF Sb.kind = "Vertical" THEN p.y ELSE p.x
CrossOf(p) == IF Sb.kind = "Vertical" THEN p.x ELSE p.y
TrackLength == IF Sb.kind = "Vertical" THEN Sb.bounds.size.height ELSE Sb.bounds.size.width
ContentLength ==
    IF Sb.kind = "Vertical"
    THEN RInt(scroll_handle.last_item_size.value.contents.height)
    ELSE RInt(scroll_handle.last_item_size.value.contents.width)
\* fraction of the track at which the pointer is
PointerFraction(p) == RDiv(RSub(AxisOf(p), AxisOf(Sb.bounds.origin)), TrackLength)
\* 1 - thumb_size
MaxFraction == RSub(RInt(1), RSub(Sb.thumb.end, Sb.thumb.start))
\* the offset the direct jump writes on the axis for a pointer at p
JumpAxisOffset(p) == RNeg(RMul(ContentLength, RMin(PointerFraction(p), MaxFraction)))
OffsetUnchanged == scroll_handle.offset = event.prev_offset
DragUnchanged == scrollbar_drag_thumb_offset = event.prev_drag
ClickToJump == event.type = "down" /\ event.inside_bounds /\ ~event.inside_thumb
DragMove == event.type = "move" /\ event.prev_drag.is_some /\ event.dragging

\* C11: a mouse-down inside the bounds and inside the thumb sets the drag
\* state to Some((pointer - thumb origin) / track length) on the axis and
\* leaves the offset; inside the bounds but outside the thumb it writes the
\* jump offset on the axis and leaves the drag state (None stays None);
\* outside the bounds it changes neither.
C11_MouseDownEffects ==
    event.type = "down" =>
        /\ (event.inside_bounds /\ event.inside_thumb) =>
              /\ scrollbar_drag_thumb_offset =
                    Some(RDiv(RSub(AxisOf(event.position), AxisOf(Sb.thumb_bounds.origin)),
                              TrackLength))
              /\ OffsetUnchanged
        /\ (event.inside_bounds /\ ~event.inside_thumb) =>
              /\ DragUnchanged
              /\ AxisOf(scroll_handle.offset) = JumpAxisOffset(event.position)
              /\ CrossOf(scroll_handle.offset) = CrossOf(event.prev_offset)
        /\ ~event.inside_bounds => (OffsetUnchanged /\ DragUnchanged)

\* C11 witness: a mouse-down inside the thumb, below its origin, arrived with
\* the drag state None and left it Some with a non-zero anchor.
C11_Witness ==
    /\ event.type = "down"
    /\ event.inside_bounds
    /\ event.inside_thumb
    /\ ~event.prev_drag.is_some
    /\ scrollbar_drag_thumb_offset.is_some
    /\ scrollbar_drag_thumb_offset.value.n > 0

\* C12: after every click-to-jump and every drag move the offset written on
\* the scrollbar's axis lies in [-(content_len * (1 - thumb_size)), 0].
C12_TargetFractionClamped ==
    (ClickToJump \/ DragMove) =>
        /\ RLe(RNeg(RMul(ContentLength, MaxFraction)), AxisOf(scroll_handle.offset))
        /\ RLe(AxisOf(scroll_handle.offset), RInt(0))

\* C13: after any mouse-up the drag state is None, whatever it was and whatever
\* the button and position; and as long as no mouse-down follows, the drag
\* state stays None and no mouse-move changes the scroll offset.
C13_MouseUpEndsDrag ==
    /\ event.type = "up" => ~scrollbar_drag_thumb_offset.is_some
    /\ after_up => ~scrollbar_drag_thumb_offset.is_some
    /\ (after_up /\ event.type = "move") => OffsetUnchanged

\* C13 witness: after a mouse-up, with no mouse-down since, a mouse-move that
\* reports an active drag was dispatched over the track.
C13_Witness ==
    /\ after_up
    /\ event.type = "move"
    /\ event.dragging
    /\ event.inside_bounds
    /\ ~event.inside_thumb

\* the press-in-thumb, drag-move, release sequence has just been completed
Released == gesture.phase = "released"
\* the offset a drag move to p with the given anchor writes on the axis
DragAxisOffset(p, anchor) ==
    RNeg(RMul(ContentLength, RMin(RSub(PointerFraction(p), anchor), MaxFraction)))

\* C14 (as stated): after mouse-down inside the thumb, drag move to P and
\* mouse-up, the offset on the axis equals the direct-jump offset for P.
C14_DragEqualsDirectJump ==
    Released => AxisOf(scroll_handle.offset) = JumpAxisOffset(gesture.position)

\* C14 (amended): after mouse-down inside the thumb (anchor a), drag move to P
\* and mouse-up, the offset on the axis is -content * min(fraction(P) - a,
\* 1 - thumb_size), and the drag state is None.
C14_DragSubtractsAnchor ==
    Released =>
        /\ AxisOf(scroll_handle.offset) = DragAxisOffset(gesture.position, gesture.anchor)
        /\ ~scrollbar_drag_thumb_offset.is_some

\* C14 witness: the sequence ended with the pointer over the track, with a
\* non-zero anchor, and the offset differs from the direct jump for P.
C14_Witness ==
    /\ Released
    /\ event.type = "up"
    /\ Contains(Sb.bounds, gesture.position)
    /\ gesture.anchor.n > 0
    /\ AxisOf(scroll_handle.offset) # JumpAxisOffset(gesture.position)

\* a finite number: a fraction with a positive denominator
IsFinite(r) == r.n \in Int /\ r.d \in Nat /\ r.d > 0

\* C15: after every ordering of events the drag state is None or Some of a
\* finite fraction and the offset is finite (each handler produced a result
\* from either state); a mouse-move that finds the drag state Some but whose
\* event is not dragging sets it to None and leaves the offset; a mouse-move
\* that finds the drag state None leaves it None and leaves the offset.
C15_HandlersTotal ==
    /\ scrollbar_drag_thumb_offset.is_some => IsFinite(scrollbar_drag_thumb_offset.value)
    /\ IsFinite(scroll_handle.offset.x) /\ IsFinite(scroll_handle.offset.y)
    /\ (event.type = "move" /\ event.prev_drag.is_some /\ ~event.dragging) =>
          (~scrollbar_drag_thumb_offset.is_some /\ OffsetUnchanged)
    /\ (event.type = "move" /\ ~event.prev_drag.is_some) =>
          (~scrollbar_drag_thumb_offset.is_some /\ OffsetUnchanged)

\* C15 witness: a mouse-move that does not report a drag found the drag state
\* Some, left by a mouse-down inside the thumb, and set it to None.
C15_Witness ==
    /\ event.type = "move"
    /\ event.prev_drag.is_some
    /\ ~event.dragging
    /\ ~after_up
    /\ event_count >= 2
    /\ ~scrollbar_drag_thumb_offset.is_some

\* C16: every event whose handlers changed the scroll offset or the drag
\* state had cx.notify called, by the Scrollbar's handler or by the listener
\* of the wrapping div.
C16_ChangesAreNotified ==
    (event.type \in {"down", "move", "up", "wheel"} /\ ~(OffsetUnchanged /\ DragUnchanged))
        => event.notified

\* C17: every pointer event whose position is on the scrollbar's hit area
\* (move, hover, down and up of any button, wheel) had cx.stop_propagation
\* called by a listener of the scrollbar.
C17_HitAreaStopsPropagation ==
    (event.type # "none" /\ event.inside_bounds) => event.stopped

\* C18: a mouse-move that finds the drag state Some(a), reports an active drag
\* and whose position is outside the scrollbar's bounds writes on the axis the
\* offset computed from (pointer fraction - a), leaves the other coordinate,
\* and leaves the drag state Some(a).
C18_DragContinuesOutside ==
    (DragMove /\ ~event.inside_bounds) =>
        /\ AxisOf(scroll_handle.offset) = DragAxisOffset(event.position, event.prev_drag.value)
        /\ CrossOf(scroll_handle.offset) = CrossOf(event.prev_offset)
        /\ DragUnchanged

\* C18 witness: after a press inside the thumb, a drag move beside the
\* scrollbar (outside its bounds) changed the offset.
C18_Witness ==
    /\ DragMove
    /\ ~event.inside_bounds
    /\ gesture.phase = "moved"
    /\ RLe(RInt(0), PointerFraction(event.position))
    /\ RLe(PointerFraction(event.position), RInt(1))
    /\ ~OffsetUnchanged

\* C19: a scroll-wheel event inside the scrollbar's bounds sets the offset to
\* the previous offset plus the pixel delta and leaves the drag state; outside
\* the bounds it changes neither.
C19_WheelAddsDelta ==
    event.type = "wheel" =>
        /\ DragUnchanged
        /\ event.inside_bounds => scroll_handle.offset = PointAdd(event.prev_offset, event.delta)
        /\ ~event.inside_bounds => OffsetUnchanged

\* C19 witness: a wheel event outside the bounds, with a non-zero delta, while
\* the drag state is Some.
C19_Witness ==
    /\ event.type = "wheel"
    /\ ~event.inside_bounds
    /\ event.delta # ZeroDelta
    /\ scrollbar_drag_thumb_offset.is_some
    /\ OffsetUnchanged

\* ------------------------------------------------------------------------
\* compute_indent_guides: depth jumps (C21), checked under SpecGuides
\* ------------------------------------------------------------------------

\* the row processed last: its absolute index, its depth, the depth before it
LastRow == CurrentRow(row - 1, offset)
LastDepth == indents[row]
DepthBefore == IF row >= 2 THEN indents[row - 1] ELSE 0
\* the guides in the output that end at the row before the last one, i.e.
\* those the last row closed
ClosedByLastRow ==
    {i \in 1..Len(indent_guides) :
        indent_guides[i].offset.y + indent_guides[i].length = LastRow}

\* C21: when the depth rose from c to d at absolute row r, the stack holds for
\* each column c..d-1 a guide with start row r and length 1, and the row
\* closed nothing; when it fell from c to d, the row emitted exactly c - d
\* guides, the ones of columns d..c-1, each with length r - start_row.
C21_JumpsInOneStep ==
    (gpc = "loop" /\ row > 0) =>
        /\ LastDepth > DepthBefore =>
              \A k \in DepthBefore..(LastDepth - 1) :
                 indent_stack[k + 1] = IndentGuideLayout(k, LastRow, 1)
        /\ LastDepth >= DepthBefore => ClosedByLastRow = {}
        /\ LastDepth < DepthBefore =>
              /\ Cardinality(ClosedByLastRow) = DepthBefore - LastDepth
              /\ {indent_guides[i].offset.x : i \in ClosedByLastRow}
                    = LastDepth..(DepthBefore - 1)
              /\ ClosedByLastRow
                    = (Len(indent_guides) - (DepthBefore - LastDepth) + 1)..Len(indent_guides)

\* C21 witness: the last row fell by at least two levels and closed two
\* guides that had been opened together by one earlier row.
C21_Witness ==
    /\ gpc = "loop"
    /\ row >= 2
    /\ DepthBefore >= LastDepth + 2
    /\ \E i, j \in ClosedByLastRow :
          /\ i # j
          /\ indent_guides[i].offset.y = indent_guides[j].offset.y
          /\ indent_guides[i].length >= 1

\* ------------------------------------------------------------------------
\* Scrollbar::paint: own axis only (C22), checked under SpecPointer
\* ------------------------------------------------------------------------

\* C22: every click-to-jump and every drag move of a Vertical scrollbar leaves
\* offset.x as it was, and of a Horizontal scrollbar leaves offset.y as it was.
C22_OnlyOwnAxisMoves ==
    (ClickToJump \/ DragMove) =>
        /\ Sb.kind = "Vertical" => scroll_handle.offset.x = event.prev_offset.x
        /\ Sb.kind = "Horizontal" => scroll_handle.offset.y = event.prev_offset.y

\* C22 witness: a drag move of a Horizontal scrollbar changed offset.x while
\* offset.y, moved earlier by the wheel, is not 0.
C22_Witness ==
    /\ DragMove
    /\ Sb.kind = "Horizontal"
    /\ scroll_handle.offset.x # event.prev_offset.x
    /\ scroll_handle.offset.y # RInt(0)
    /\ scroll_handle.offset.y # RInt(0 - 10)

\* ------------------------------------------------------------------------
\* Frames: the drag state gates the scrollbar (C23), checked under SpecFrames
\* ------------------------------------------------------------------------

\* the drag state is None and no Scrollbar of the current frame is painted
IdleUnpainted == ~scrollbar_drag_thumb_offset.is_some /\ ~scrollbar.is_some
\* up_frame (history): "up" after a mouse-up was handled, "pressed" once a
\* mouse-down inside the thumb was handled after it, both until the next
\* render; "rendered" / "rendered_pressed" while the frame on screen is the
\* one rendered next after that mouse-up; "none" otherwise.
\* The frame on screen is the first one rendered after a mouse-up.
NextRenderAfterMouseUp == up_frame \in {"rendered", "rendered_pressed"}
\* ... and no mouse-down inside the thumb was handled in between.
NextRenderAfterMouseUpNoPress == up_frame = "rendered"
\* the last render returned None and nothing is painted
NoScrollbarReturned == rendered.result = NoScrollbar(FALSE) /\ ~scrollbar.is_some

\* C23 as stated: a run that starts with the drag state None has nothing
\* painted and never reaches the drag state Some, and after any mouse-up
\* handled by the scrollbar the next render returns no scrollbar (whatever
\* was handled between the mouse-up and that render).
C23_NextRenderAfterAnyMouseUp ==
    /\ []((event_count = 0 /\ ~scrollbar_drag_thumb_offset.is_some) => IdleUnpainted)
    /\ [][IdleUnpainted => IdleUnpainted']_vars
    /\ [](NextRenderAfterMouseUp => NoScrollbarReturned)

\* C23 (amended): a run that starts with the drag state None has no Scrollbar
\* painted at its start, and from the drag state None with nothing painted
\* every step leads to the drag state None with nothing painted, so no
\* handler of the scrollbar ever runs and the drag state never becomes Some;
\* and the render that follows a mouse-up handled by the scrollbar returns
\* None, so nothing is painted, provided no mouse-down inside the thumb was
\* handled between the mouse-up and the render.
C23_IdleNeverShowsScrollbar ==
    /\ []((event_count = 0 /\ ~scrollbar_drag_thumb_offset.is_some) => IdleUnpainted)
    /\ [][IdleUnpainted => IdleUnpainted']_vars
    /\ [](NextRenderAfterMouseUpNoPress => NoScrollbarReturned)

\* C23 witness: a mouse-up found the drag state Some, a mouse-down inside the
\* bounds and outside the thumb followed it, and the frame rendered next has
\* no scrollbar although the panel still shows scrollbars.
C23_Witness ==
    /\ up_frame = "rendered"
    /\ event.type = "down"
    /\ event.inside_bounds
    /\ event_count >= 2
    /\ show_scrollbar
    /\ should_show_scrollbar
    /\ NoScrollbarReturned

====
